---- MODULE Spec2Model ----
(***************************************************************************)
(* A model of the lite_led driver (src/src/lite_led.c): the static table   *)
(* g_led_list of LED records, the API calls lite_led_init, lite_led_write, *)
(* lite_led_read and the periodic handler lite_led_poll_handle.            *)
(*                                                                         *)
(* The phase arithmetic of the BREATH/FADE modes is IEEE-754 binary32      *)
(* ("float"), round to nearest even.  A float is modelled exactly as a     *)
(* record [inf, neg, m, e] of value (-1)^neg * m * 2^e, where m = 0 or     *)
(* 2^23 <= m < 2^24; all integer arithmetic stays below 2^31.              *)
(***************************************************************************)
EXTENDS Integers, Naturals, Sequences, FiniteSets, TLC

(***************************************************************************)
(* Program constants.                                                      *)
(***************************************************************************)
LED_POLL_PERIOD_MS == 100
LED_MAX == 4
LED_INVALID == 5
LED_NUM == LED_MAX
LED_MAX_BRIGHTNESS == 100
LED_MIN_BRIGHTNESS == 0
\* 0xFFFFFFFF does not fit TLC's integers; the sentinel is a value no tick
\* count derived from the configurations of this model can take.
LED_BLOCK_FOREVER == -1
LED_TABLE_SIZE == 128

LED_ERROR_NONE == 0
LED_ERROR_PARA_INVALID == -1
LED_ERROR_MODE_INVALID == -2
LED_ERROR_ALTERNATE_ID == -3

LED_MODE_OFF == 0
LED_MODE_ON == 1
LED_MODE_BLINK == 2
LED_MODE_BREATH == 3
LED_MODE_FADE_IN == 4
LED_MODE_FADE_OUT == 5
LED_MODE_ALTERNATE == 6

LED_STATE_OFF == 0
LED_STATE_ON == 1

NULL == "NULL"
\* a null led_cfg_t pointer
NULL_CFG == [null |-> TRUE]

g_led_sin_table ==
  <<  0,  1,  2,  3,  4,  5,  7,  8, 10, 11, 13, 15, 16, 18, 20, 22,
     24, 26, 28, 30, 32, 34, 37, 39, 41, 44, 46, 49, 51, 54, 56, 59,
     61, 64, 67, 69, 72, 75, 77, 80, 83, 86, 88, 91, 94, 97,100,100,
    100,100,100,100,100,100,100,100,100,100,100,100,100,100,100,100,
    100,100,100,100,100,100,100,100,100,100,100,100,100,100,100,100,
     97, 94, 91, 88, 86, 83, 80, 77, 75, 72, 69, 67, 64, 61, 59, 56,
     54, 51, 49, 46, 44, 41, 39, 37, 34, 32, 30, 28, 26, 24, 22, 20,
     18, 16, 15, 13, 11, 10,  8,  7,  5,  4,  3,  2,  1,  0,  0,  0 >>

(***************************************************************************)
(* binary32 arithmetic.                                                    *)
(***************************************************************************)
\* the number of bits of n, 0 <= n < 2^31
RECURSIVE BitLenFrom(_, _, _)
BitLenFrom(n, lo, hi) ==
  IF hi - lo = 1 THEN hi
  ELSE LET mid == (lo + hi) \div 2
       IN IF n < 2^mid THEN BitLenFrom(n, lo, mid) ELSE BitLenFrom(n, mid, hi)
BitLen(n) == IF n = 0 THEN 0 ELSE IF n >= 2^30 THEN 31 ELSE BitLenFrom(n, 0, 30)

Fin(neg, m, e) == [inf |-> FALSE, neg |-> neg, m |-> m, e |-> e]
FZero == Fin(FALSE, 0, 0)
FInf(neg) == [inf |-> TRUE, neg |-> neg, m |-> 0, e |-> 0]
FNeg(a) == [a EXCEPT !.neg = ~a.neg]

\* The float nearest to n * 2^e (+ a positive amount below one unit of n when
\* sticky), ties to even.  With sticky, n has at least 26 bits.
FRound(n, e, sticky, neg) ==
  IF n = 0 THEN FZero
  ELSE LET b == BitLen(n) IN
       IF b <= 24 THEN Fin(neg, n * 2^(24 - b), e - (24 - b))
       ELSE LET s == b - 24
                q == n \div 2^s
                r == n % 2^s
                half == 2^(s - 1)
                up == r > half \/ (r = half /\ (sticky \/ q % 2 = 1))
                m1 == IF up THEN q + 1 ELSE q
            IN IF m1 = 2^24 THEN Fin(neg, 2^23, e + s + 1)
                            ELSE Fin(neg, m1, e + s)

\* |a| < |b| for finite a, b
MagLt(a, b) ==
  IF b.m = 0 THEN FALSE
  ELSE IF a.m = 0 THEN TRUE
  ELSE LET ta == a.e + BitLen(a.m)
           tb == b.e + BitLen(b.m)
       IN ta < tb \/ (ta = tb /\ a.m * 2^(30 - BitLen(a.m)) < b.m * 2^(30 - BitLen(b.m)))

\* round(m1*2^e1 + m2*2^e2) for 0 < m1 < 2^30, 0 < m2 < 2^25, the first
\* operand the larger one
RoundSum(m1, e1, m2, e2, neg) ==
  LET b1 == BitLen(m1)
      M1 == m1 * 2^(29 - b1)
      E  == e1 - (29 - b1)
      sh == e2 - E
      q  == IF sh >= 0 THEN m2 * 2^sh
            ELSE IF -sh > 30 THEN 0 ELSE m2 \div 2^(-sh)
      st == IF sh >= 0 THEN FALSE
            ELSE IF -sh > 30 THEN TRUE ELSE m2 % 2^(-sh) # 0
  IN FRound(M1 + q, E, st, neg)

\* round(m1*2^e1 - m2*2^e2) for m1*2^e1 > m2*2^e2 > 0
RoundDiff(m1, e1, m2, e2, neg) ==
  LET b1 == BitLen(m1)
      M1 == m1 * 2^(29 - b1)
      E  == e1 - (29 - b1)
      sh == e2 - E
      q  == IF sh >= 0 THEN m2 * 2^sh
            ELSE IF -sh > 30 THEN 0 ELSE m2 \div 2^(-sh)
      st == IF sh >= 0 THEN FALSE
            ELSE IF -sh > 30 THEN TRUE ELSE m2 % 2^(-sh) # 0
  IN FRound(M1 - q - (IF st THEN 1 ELSE 0), E, st, neg)

\* a + b in float
FAdd(a, b) ==
  IF a.inf THEN a
  ELSE IF b.inf THEN b
  ELSE IF a.m = 0 THEN b
  ELSE IF b.m = 0 THEN a
  ELSE IF a.neg = b.neg
       THEN IF MagLt(a, b) THEN RoundSum(b.m, b.e, a.m, a.e, a.neg)
                           ELSE RoundSum(a.m, a.e, b.m, b.e, a.neg)
       ELSE IF MagLt(a, b) THEN RoundDiff(b.m, b.e, a.m, a.e, b.neg)
            ELSE IF MagLt(b, a) THEN RoundDiff(a.m, a.e, b.m, b.e, a.neg)
            ELSE FZero

\* a / b in float, a >= 0 and b >= 0 finite; x / 0 is +inf (IEC 60559)
FDiv(a, b) ==
  IF b.m = 0 THEN FInf(a.neg)
  ELSE IF a.m = 0 THEN FZero
  ELSE LET q0 == a.m \div b.m
           r0 == a.m % b.m
           q1 == (r0 * 128) \div b.m
           r1 == (r0 * 128) % b.m
           q2 == (r1 * 128) \div b.m
           r2 == (r1 * 128) % b.m
           q3 == (r2 * 128) \div b.m
           r3 == (r2 * 128) % b.m
           q4 == (r3 * 128) \div b.m
           r4 == (r3 * 128) % b.m
           Q  == q0 * 2^28 + q1 * 2^21 + q2 * 2^14 + q3 * 2^7 + q4
       IN FRound(Q, a.e - b.e - 28, r4 # 0, a.neg)

\* (float)n for an unsigned n < 2^24
IntToFloat(n) == FRound(n, 0, FALSE, FALSE)

\* a * n in float for an int n with 0 < n < 128
FMulInt(a, n) == IF a.inf THEN a ELSE FRound(a.m * n, a.e, FALSE, a.neg)

\* a <= 0.0f
FLeZero(a) == IF a.inf THEN a.neg ELSE (a.m = 0 \/ a.neg)

\* a >= b for b a positive finite float
FGe(a, b) == IF a.inf THEN ~a.neg ELSE (~a.neg /\ ~MagLt(a, b))

(***************************************************************************)
(* The constants of the phase arithmetic.  M_PI is a double; (float)M_PI   *)
(* is 13176795 * 2^-22, and M_PI = (float)M_PI - 24607325 * 2^-48 exactly. *)
(***************************************************************************)
\* (float)LED_PI
LED_PI_F == Fin(FALSE, 13176795, -22)
\* (float)LED_2PI
LED_2PI_F == Fin(FALSE, 13176795, -21)

\* phase >= LED_PI, compared in double: no float lies between M_PI and
\* (float)M_PI, so the comparison is the one with (float)M_PI
GeLedPi(phase) == FGe(phase, LED_PI_F)
\* phase >= LED_2PI, likewise
GeLed2Pi(phase) == FGe(phase, LED_2PI_F)

\* (float)((double)phase - LED_2PI) for 2*pi <= phase < 512:
\* phase - LED_2PI = (phase - (float)LED_2PI) + 24607325 * 2^-47, the first
\* term an exact multiple of 2^-21, the sum rounded once
SubLed2Pi(phase) ==
  IF phase.inf THEN phase
  ELSE LET n == phase.m * 2^(phase.e + 21) - 13176795
       IN IF n = 0 THEN FRound(24607325, -47, FALSE, FALSE)
                   ELSE RoundSum(n, -21, 24607325, -47, FALSE)

\* (size_t)q for a float q >= 0; a value above 2^30 is given as one above 2^29
\* (it is only compared with LED_TABLE_SIZE)
FToSize(q) ==
  IF q.m = 0 THEN 0
  ELSE IF q.e >= 0 THEN q.m * 2^(IF q.e > 6 THEN 6 ELSE q.e)
  ELSE IF -q.e > 30 THEN 0 ELSE q.m \div 2^(-q.e)

\* The values (size_t)q can take.  The conversion of an infinite or negative
\* value is undefined: builds give 0 (the conversion wraps or yields the
\* "indefinite" value) or a saturated value above LED_TABLE_SIZE
UBIndex == {0, LED_TABLE_SIZE + 1}
SizeOfFloat(q) ==
  IF q.inf \/ (q.neg /\ q.m # 0) THEN UBIndex ELSE {FToSize(q)}

\* lite_led_get_percent_from_phase: the set of results
lite_led_get_percent_from_phase(phase) ==
  LET step == Fin(FALSE, 13176795, -28)
  IN { g_led_sin_table[(IF index > LED_TABLE_SIZE THEN LED_TABLE_SIZE ELSE index) + 1] :
         index \in SizeOfFloat(FDiv(phase, step)) }

(***************************************************************************)
(* The records of g_led_list.                                              *)
(***************************************************************************)
ZeroCfg == [mode |-> 0, alter_id |-> 0, on_tick |-> 0, off_tick |-> 0,
            fade_tick |-> 0, alternate_tick |-> 0, duration_tick |-> 0]
ZeroStat == [percent |-> 0, state |-> 0, next_tick |-> 0, remain_tick |-> 0,
             phase |-> FZero, phase_step |-> FZero, dur_timeout |-> FALSE]
ZeroDev == [id |-> 0, cfg |-> ZeroCfg, stat |-> ZeroStat,
            set_percent_cb |-> NULL, dur_timeout_cb |-> NULL]

LedIds == 0..(LED_NUM - 1)

\* the argument check with the bound off by one: LED_NUM passes
InitArgInvalid_offbyone(id, cb) == id > LED_NUM \/ cb = NULL

\* lite_led_init: the argument check
InitArgInvalid(id, cb) == id >= LED_NUM \/ cb = NULL

lite_led_init(list, id, cb) ==
  IF InitArgInvalid(id, cb) THEN [ret |-> -1, list |-> list]
  ELSE [ret |-> LED_ERROR_NONE,
        list |-> [i \in DOMAIN list |->
                    IF i = id THEN [ZeroDev EXCEPT !.id = id, !.set_percent_cb = cb]
                    ELSE list[i]]]

\* the configuration stored, the state and the countdown of the running
\* effect kept
WriteCfg_keepstate(led, cfg) ==
  [led EXCEPT
     !.cfg = [mode |-> cfg.mode, alter_id |-> cfg.alter_id,
              on_tick |-> cfg.on_ms \div LED_POLL_PERIOD_MS,
              off_tick |-> cfg.off_ms \div LED_POLL_PERIOD_MS,
              fade_tick |-> cfg.fade_ms \div LED_POLL_PERIOD_MS,
              alternate_tick |-> cfg.alternate_ms \div LED_POLL_PERIOD_MS,
              duration_tick |-> cfg.duration_ms \div LED_POLL_PERIOD_MS],
     !.stat = [ZeroStat EXCEPT !.remain_tick = cfg.duration_ms \div LED_POLL_PERIOD_MS,
                               !.state = led.stat.state,
                               !.next_tick = led.stat.next_tick]]

\* lite_led_write, lines 103-112: the configuration in ticks, the status cleared
WriteCfg(led, cfg) ==
  [led EXCEPT
     !.cfg = [mode |-> cfg.mode, alter_id |-> cfg.alter_id,
              on_tick |-> cfg.on_ms \div LED_POLL_PERIOD_MS,
              off_tick |-> cfg.off_ms \div LED_POLL_PERIOD_MS,
              fade_tick |-> cfg.fade_ms \div LED_POLL_PERIOD_MS,
              alternate_tick |-> cfg.alternate_ms \div LED_POLL_PERIOD_MS,
              duration_tick |-> cfg.duration_ms \div LED_POLL_PERIOD_MS],
     !.stat = [ZeroStat EXCEPT !.remain_tick = cfg.duration_ms \div LED_POLL_PERIOD_MS]]

\* the phase step of a fade whose whole cycle is twice as long
PhaseStep_halfspeed(fade_ms) ==
  LET s == FDiv(FMulInt(LED_PI_F, LED_POLL_PERIOD_MS), IntToFloat(2 * fade_ms))
  IN IF FLeZero(s) THEN FDiv(LED_PI_F, IntToFloat(LED_MAX_BRIGHTNESS)) ELSE s

\* lite_led_write, lines 125-128
PhaseStep(fade_ms) ==
  LET s == FDiv(FMulInt(LED_PI_F, LED_POLL_PERIOD_MS), IntToFloat(fade_ms))
  IN IF FLeZero(s) THEN FDiv(LED_PI_F, IntToFloat(LED_MAX_BRIGHTNESS)) ELSE s

\* the fade set-up with FADE_OUT starting from the bottom of the curve
WriteFade_frombottom(led, cfg) ==
  IF cfg.mode = LED_MODE_FADE_OUT
  THEN [led EXCEPT !.stat.percent = LED_MAX_BRIGHTNESS,
                   !.stat.phase = FZero,
                   !.stat.phase_step = FNeg(PhaseStep(cfg.fade_ms))]
  ELSE [led EXCEPT !.stat.percent = LED_MIN_BRIGHTNESS,
                   !.stat.phase = FZero,
                   !.stat.phase_step = PhaseStep(cfg.fade_ms)]

\* lite_led_write, lines 121-137
WriteFade(led, cfg) ==
  IF cfg.mode = LED_MODE_FADE_OUT
  THEN [led EXCEPT !.stat.percent = LED_MAX_BRIGHTNESS,
                   !.stat.phase = LED_PI_F,
                   !.stat.phase_step = FNeg(PhaseStep(cfg.fade_ms))]
  ELSE [led EXCEPT !.stat.percent = LED_MIN_BRIGHTNESS,
                   !.stat.phase = FZero,
                   !.stat.phase_step = PhaseStep(cfg.fade_ms)]

\* lite_led_write: the argument check
WriteArgInvalid(id, cfg) == id >= LED_MAX \/ cfg = NULL_CFG

\* lite_led_write: the record is written before the mode is looked at
lite_led_write(list, id, cfg) ==
  IF WriteArgInvalid(id, cfg) THEN [ret |-> LED_ERROR_PARA_INVALID, list |-> list]
  ELSE LET led == WriteCfg(list[id], cfg)
           put(l) == [i \in DOMAIN list |-> IF i = id THEN l ELSE list[i]]
       IN CASE cfg.mode \in {LED_MODE_ON, LED_MODE_OFF, LED_MODE_BLINK} ->
                 [ret |-> LED_ERROR_NONE, list |-> put(led)]
            [] cfg.mode \in {LED_MODE_BREATH, LED_MODE_FADE_IN, LED_MODE_FADE_OUT} ->
                 [ret |-> LED_ERROR_NONE, list |-> put(WriteFade(led, cfg))]
            [] cfg.mode = LED_MODE_ALTERNATE ->
                 [ret |-> IF id = cfg.alter_id THEN LED_ERROR_ALTERNATE_ID
                                               ELSE LED_ERROR_NONE,
                  list |-> put(led)]
            [] OTHER -> [ret |-> LED_ERROR_MODE_INVALID, list |-> put(led)]

\* lite_led_read: the argument check
ReadArgInvalid(id, status) == id >= LED_NUM \/ status = NULL

\* lite_led_read: the return value and what *status holds afterwards
lite_led_read(list, id, status, old) ==
  IF ReadArgInvalid(id, status) THEN [ret |-> LED_ERROR_PARA_INVALID, status |-> old]
  ELSE [ret |-> LED_ERROR_NONE, status |-> list[id].stat]

(***************************************************************************)
(* lite_led_poll_handle.                                                   *)
(***************************************************************************)
NoCall == -1

\* the percent of a state as an 8-bit duty cycle
BrightnessOf_duty(state) ==
  IF state = LED_STATE_ON THEN 255 ELSE LED_MIN_BRIGHTNESS

\* lines 247 and 250: the percent of a state
BrightnessOf(state) ==
  IF state = LED_STATE_ON THEN LED_MAX_BRIGHTNESS ELSE LED_MIN_BRIGHTNESS

\* the fade modes with FADE_IN running on past the top of the table
DispatchFade_notop(led) ==
  LET p1 == FAdd(led.stat.phase, led.stat.phase_step)
      wrap == led.cfg.mode # LED_MODE_FADE_OUT /\ GeLed2Pi(p1)
      bottom == led.cfg.mode = LED_MODE_FADE_OUT /\ FLeZero(p1)
      p2 == IF wrap THEN SubLed2Pi(p1)
            ELSE IF bottom THEN FZero
            ELSE p1
      next == IF bottom THEN LED_BLOCK_FOREVER ELSE led.stat.next_tick
  IN { [led EXCEPT !.stat.phase = p2, !.stat.next_tick = next,
                   !.stat.percent = IF pc >= LED_MAX_BRIGHTNESS
                                    THEN LED_MAX_BRIGHTNESS ELSE pc] :
         pc \in lite_led_get_percent_from_phase(p2) }

\* lines 217-241: the fade modes; the set of records the dispatch can leave
DispatchFade(led) ==
  LET p1 == FAdd(led.stat.phase, led.stat.phase_step)
      wrap == led.cfg.mode = LED_MODE_BREATH /\ GeLed2Pi(p1)
      top == led.cfg.mode = LED_MODE_FADE_IN /\ GeLedPi(p1)
      bottom == led.cfg.mode = LED_MODE_FADE_OUT /\ FLeZero(p1)
      p2 == IF wrap THEN SubLed2Pi(p1)
            ELSE IF top THEN LED_PI_F
            ELSE IF bottom THEN FZero
            ELSE p1
      next == IF top \/ bottom THEN LED_BLOCK_FOREVER ELSE led.stat.next_tick
  IN { [led EXCEPT !.stat.phase = p2, !.stat.next_tick = next,
                   !.stat.percent = IF pc >= LED_MAX_BRIGHTNESS
                                    THEN LED_MAX_BRIGHTNESS ELSE pc] :
         pc \in lite_led_get_percent_from_phase(p2) }

\* the ALTERNATE dispatch with both records of a pair toggling on their own
DispatchAlternate_bothtoggle(list, led) ==
  IF led.cfg.alter_id >= LED_NUM THEN led
  ELSE LET st == 1 - led.stat.state
       IN [led EXCEPT !.stat.next_tick = led.cfg.alternate_tick,
                      !.stat.state = st,
                      !.stat.percent = BrightnessOf(st)]

\* lines 242-252
DispatchAlternate(list, led) ==
  IF led.cfg.alter_id >= LED_NUM THEN led
  ELSE LET st == IF led.id < led.cfg.alter_id
                 THEN 1 - led.stat.state
                 ELSE 1 - list[led.cfg.alter_id].stat.state
       IN [led EXCEPT !.stat.next_tick = led.cfg.alternate_tick,
                      !.stat.state = st,
                      !.stat.percent = BrightnessOf(st)]

\* the blink with the two phases' lengths exchanged
DispatchBlink_swapped(led) ==
  IF led.stat.state = LED_STATE_OFF
  THEN [led EXCEPT !.stat.next_tick = led.cfg.off_tick,
                   !.stat.percent = LED_MAX_BRIGHTNESS,
                   !.stat.state = 1 - led.stat.state]
  ELSE [led EXCEPT !.stat.next_tick = led.cfg.on_tick,
                   !.stat.percent = LED_MIN_BRIGHTNESS,
                   !.stat.state = 1 - led.stat.state]

\* lines 207-216
DispatchBlink(led) ==
  IF led.stat.state = LED_STATE_OFF
  THEN [led EXCEPT !.stat.next_tick = led.cfg.on_tick,
                   !.stat.percent = LED_MAX_BRIGHTNESS,
                   !.stat.state = 1 - led.stat.state]
  ELSE [led EXCEPT !.stat.next_tick = led.cfg.off_tick,
                   !.stat.percent = LED_MIN_BRIGHTNESS,
                   !.stat.state = 1 - led.stat.state]

\* lines 196-255: the switch on the mode
Dispatch(list, led) ==
  CASE led.cfg.mode = LED_MODE_OFF ->
         {[led EXCEPT !.stat.state = LED_STATE_OFF,
                      !.stat.percent = LED_MIN_BRIGHTNESS,
                      !.stat.next_tick = LED_BLOCK_FOREVER]}
    [] led.cfg.mode = LED_MODE_ON ->
         {[led EXCEPT !.stat.state = LED_STATE_ON,
                      !.stat.percent = LED_MAX_BRIGHTNESS,
                      !.stat.next_tick = LED_BLOCK_FOREVER]}
    [] led.cfg.mode = LED_MODE_BLINK -> {DispatchBlink(led)}
    [] led.cfg.mode \in {LED_MODE_FADE_IN, LED_MODE_FADE_OUT, LED_MODE_BREATH} ->
         DispatchFade(led)
    [] led.cfg.mode = LED_MODE_ALTERNATE -> {DispatchAlternate(list, led)}
    [] OTHER -> {led}

\* the lifetime ending one poll early
DurationExpires_early(led) == led.stat.remain_tick # 0 /\ led.stat.remain_tick - 1 <= 1

\* lines 178-186: the lifetime countdown; TRUE when the lifetime ends now
DurationExpires(led) == led.stat.remain_tick # 0 /\ led.stat.remain_tick - 1 = 0

\* the pass over record i without the test of its callback
PollLed_unguarded(list, i) ==
  LET led == list[i]
      put(l) == [j \in DOMAIN list |-> IF j = i THEN l ELSE list[j]]
      idle(l) == {[list |-> put(l), cb |-> NoCall]}
  IN IF DurationExpires(led)
     THEN idle([led EXCEPT !.stat.remain_tick = 0,
                           !.cfg.mode = LED_MODE_OFF,
                           !.stat.next_tick = 0])
     ELSE LET l1 == IF led.stat.remain_tick # 0
                    THEN [led EXCEPT !.stat.remain_tick = @ - 1] ELSE led
          IN IF l1.stat.next_tick = LED_BLOCK_FOREVER THEN idle(l1)
             ELSE IF l1.stat.next_tick # 0 /\ l1.stat.next_tick - 1 # 0
             THEN idle([l1 EXCEPT !.stat.next_tick = @ - 1])
             ELSE LET l2 == IF l1.stat.next_tick # 0
                            THEN [l1 EXCEPT !.stat.next_tick = @ - 1] ELSE l1
                  IN { [list |-> put(l3), cb |-> l3.stat.percent] :
                         l3 \in Dispatch(list, l2) }

\* the pass over record i with the countdown running on from the sentinel
PollLed_countsentinel(list, i) ==
  LET led == list[i]
      put(l) == [j \in DOMAIN list |-> IF j = i THEN l ELSE list[j]]
      idle(l) == {[list |-> put(l), cb |-> NoCall]}
  IN IF led.set_percent_cb = NULL THEN idle(led)
     ELSE IF DurationExpires(led)
     THEN idle([led EXCEPT !.stat.remain_tick = 0,
                           !.cfg.mode = LED_MODE_OFF,
                           !.stat.next_tick = 0])
     ELSE LET l1 == IF led.stat.remain_tick # 0
                    THEN [led EXCEPT !.stat.remain_tick = @ - 1] ELSE led
          IN IF l1.stat.next_tick # 0 /\ l1.stat.next_tick - 1 # 0
             THEN idle([l1 EXCEPT !.stat.next_tick = @ - 1])
             ELSE LET l2 == IF l1.stat.next_tick # 0
                            THEN [l1 EXCEPT !.stat.next_tick = @ - 1] ELSE l1
                  IN { [list |-> put(l3), cb |-> l3.stat.percent] :
                         l3 \in Dispatch(list, l2) }

\* the pass over record i with the expiry falling through to the dispatch
PollLed_expirydispatch(list, i) ==
  LET led == list[i]
      put(l) == [j \in DOMAIN list |-> IF j = i THEN l ELSE list[j]]
      idle(l) == {[list |-> put(l), cb |-> NoCall]}
  IN IF led.set_percent_cb = NULL THEN idle(led)
     ELSE LET l1 == IF DurationExpires(led)
                    THEN [led EXCEPT !.stat.remain_tick = 0,
                                     !.cfg.mode = LED_MODE_OFF,
                                     !.stat.next_tick = 0]
                    ELSE IF led.stat.remain_tick # 0
                    THEN [led EXCEPT !.stat.remain_tick = @ - 1] ELSE led
          IN IF l1.stat.next_tick = LED_BLOCK_FOREVER THEN idle(l1)
             ELSE IF l1.stat.next_tick # 0 /\ l1.stat.next_tick - 1 # 0
             THEN idle([l1 EXCEPT !.stat.next_tick = @ - 1])
             ELSE LET l2 == IF l1.stat.next_tick # 0
                            THEN [l1 EXCEPT !.stat.next_tick = @ - 1] ELSE l1
                  IN { [list |-> put(l3), cb |-> l3.stat.percent] :
                         l3 \in Dispatch(list, l2) }

\* lines 175-258 for record i: the set of outcomes [list, cb], cb the value
\* passed to set_percent_cb or NoCall
PollLed(list, i) ==
  LET led == list[i]
      put(l) == [j \in DOMAIN list |-> IF j = i THEN l ELSE list[j]]
      idle(l) == {[list |-> put(l), cb |-> NoCall]}
  IN IF led.set_percent_cb = NULL THEN idle(led)
     ELSE IF DurationExpires(led)
     THEN idle([led EXCEPT !.stat.remain_tick = 0,
                           !.cfg.mode = LED_MODE_OFF,
                           !.stat.next_tick = 0])
     ELSE LET l1 == IF led.stat.remain_tick # 0
                    THEN [led EXCEPT !.stat.remain_tick = @ - 1] ELSE led
          IN IF l1.stat.next_tick = LED_BLOCK_FOREVER THEN idle(l1)
             ELSE IF l1.stat.next_tick # 0 /\ l1.stat.next_tick - 1 # 0
             THEN idle([l1 EXCEPT !.stat.next_tick = @ - 1])
             ELSE LET l2 == IF l1.stat.next_tick # 0
                            THEN [l1 EXCEPT !.stat.next_tick = @ - 1] ELSE l1
                  IN { [list |-> put(l3), cb |-> l3.stat.percent] :
                         l3 \in Dispatch(list, l2) }

\* lines 174-259: the loop over the records, in ascending order; the set of
\* outcomes [list, cbs], cbs the callback value of each record
RECURSIVE PollFrom(_, _)
PollFrom(W, i) ==
  IF i = LED_NUM THEN W
  ELSE PollFrom(UNION { { [list |-> o.list, cbs |-> [w.cbs EXCEPT ![i] = o.cb]] :
                            o \in PollLed(w.list, i) } : w \in W }, i + 1)

lite_led_poll_handle(list) ==
  PollFrom({[list |-> list, cbs |-> [i \in LedIds |-> NoCall]]}, 0)

\* lite_led_register_duration_timeout_cb (declared in lite_led.h, called by the
\* example, defined nowhere in the repository): stores the callback
lite_led_register_duration_timeout_cb(list, id, cb) ==
  IF id >= LED_NUM THEN [ret |-> LED_ERROR_PARA_INVALID, list |-> list]
  ELSE [ret |-> LED_ERROR_NONE,
        list |-> [i \in DOMAIN list |->
                    IF i = id THEN [list[i] EXCEPT !.dur_timeout_cb = cb] ELSE list[i]]]

(***************************************************************************)
(* The state.                                                              *)
(*   g_led_list  the table of records                                      *)
(*   res         the last call: operation, identifier, return value, for   *)
(*               lite_led_read the status copied out, for lite_led_write   *)
(*               whether the record was in the middle of an effect         *)
(*   cbs         per record, the value the last operation passed to its    *)
(*               set_percent_cb, or NoCall                                 *)
(*   tcbs        per record, whether the last operation invoked its        *)
(*               dur_timeout_cb                                            *)
(*   trace       per record, the brightness right after the last           *)
(*               lite_led_write to it and after each poll since; empty     *)
(*               when it was not written since boot or lite_led_init       *)
(*   wcfg        per record, the led_cfg_t of that last lite_led_write,    *)
(*               NULL_CFG when there was none                              *)
(***************************************************************************)
VARIABLES g_led_list, res, cbs, tcbs, trace, wcfg

vars == <<g_led_list, res, cbs, tcbs, trace, wcfg>>

NoCbs == [i \in LedIds |-> NoCall]
NoTcbs == [i \in LedIds |-> FALSE]
\* a status in the middle of an effect: lit, counting down to its next event,
\* its lifetime running
Running(stat) ==
  stat.state = LED_STATE_ON /\ stat.next_tick > 0 /\ stat.remain_tick > 0
Result(op, id, ret) ==
  [op |-> op, id |-> id, ret |-> ret, status |-> ZeroStat, before |-> Running(ZeroStat)]

\* static led_dev_t g_led_list[LED_NUM] = {0};
Boot ==
  /\ g_led_list = [i \in LedIds |-> ZeroDev]
  /\ res = Result("boot", 0, 0)
  /\ cbs = NoCbs
  /\ tcbs = NoTcbs
  /\ trace = [i \in LedIds |-> <<>>]
  /\ wcfg = [i \in LedIds |-> NULL_CFG]

CallInit(id, cb) ==
  LET r == lite_led_init(g_led_list, id, cb)
  IN /\ g_led_list' = r.list
     /\ res' = Result("init", id, r.ret)
     /\ cbs' = NoCbs
     /\ tcbs' = NoTcbs
     /\ trace' = IF r.ret = LED_ERROR_NONE THEN [trace EXCEPT ![id] = <<>>] ELSE trace
     /\ wcfg' = IF r.ret = LED_ERROR_NONE THEN [wcfg EXCEPT ![id] = NULL_CFG] ELSE wcfg

CallRegister(id, cb) ==
  LET r == lite_led_register_duration_timeout_cb(g_led_list, id, cb)
  IN /\ g_led_list' = r.list
     /\ res' = Result("register", id, r.ret)
     /\ cbs' = NoCbs
     /\ tcbs' = NoTcbs
     /\ UNCHANGED <<trace, wcfg>>

CallWrite(id, cfg) ==
  LET r == lite_led_write(g_led_list, id, cfg)
  IN /\ g_led_list' = r.list
     /\ res' = [Result("write", id, r.ret) EXCEPT
                   !.before = IF WriteArgInvalid(id, cfg) THEN Running(ZeroStat)
                              ELSE Running(g_led_list[id].stat)]
     /\ cbs' = NoCbs
     /\ tcbs' = NoTcbs
     /\ trace' = IF WriteArgInvalid(id, cfg) THEN trace
                 ELSE [trace EXCEPT ![id] = <<r.list[id].stat.percent>>]
     /\ wcfg' = IF WriteArgInvalid(id, cfg) THEN wcfg ELSE [wcfg EXCEPT ![id] = cfg]

\* the caller passes a zeroed led_status_t
CallRead(id, status) ==
  LET r == lite_led_read(g_led_list, id, status, ZeroStat)
  IN /\ res' = [Result("read", id, r.ret) EXCEPT !.status = r.status]
     /\ cbs' = NoCbs
     /\ tcbs' = NoTcbs
     /\ UNCHANGED <<g_led_list, trace, wcfg>>

\* one call of lite_led_poll_handle, while no record was polled more than
\* horizon times since its last write; the handler holds no call of any
\* dur_timeout_cb
Poll(horizon) ==
  /\ \A i \in LedIds : Len(trace[i]) <= horizon
  /\ \E o \in lite_led_poll_handle(g_led_list) :
       /\ g_led_list' = o.list
       /\ cbs' = o.cbs
       /\ trace' = [i \in LedIds |->
                      IF trace[i] = <<>> THEN <<>>
                      ELSE Append(trace[i], o.list[i].stat.percent)]
  /\ tcbs' = NoTcbs
  /\ res' = Result("poll", 0, 0)
  /\ UNCHANGED wcfg

\* one call of lite_led_poll_handle at any time; the brightness is recorded for
\* the first horizon polls since the write only
PollOn(horizon) ==
  /\ \E o \in lite_led_poll_handle(g_led_list) :
       /\ g_led_list' = o.list
       /\ cbs' = o.cbs
       /\ trace' = [i \in LedIds |->
                      IF trace[i] = <<>> \/ Len(trace[i]) > horizon THEN trace[i]
                      ELSE Append(trace[i], o.list[i].stat.percent)]
  /\ tcbs' = NoTcbs
  /\ res' = Result("poll", 0, 0)
  /\ UNCHANGED wcfg

(***************************************************************************)
(* The callers' inputs.                                                    *)
(***************************************************************************)
MkCfg(mode, alter_id, on_ms, off_ms, fade_ms, alternate_ms, duration_ms) ==
  [mode |-> mode, alter_id |-> alter_id, on_ms |-> on_ms, off_ms |-> off_ms,
   fade_ms |-> fade_ms, alternate_ms |-> alternate_ms, duration_ms |-> duration_ms]

\* the polls watched after a write
MaxTicks == 7
BlinkTicks == 12
FadeTicks == 21
AltTicks == 6

\* durations in ms: none, below one poll period, one period, five periods
DurSet == {0, 50, 100, 500}
SteadyCfgs(modes, durs) == { MkCfg(m, 0, 0, 0, 0, 0, d) : m \in modes, d \in durs }
BlinkCfgs(ons, offs, durs) ==
  { MkCfg(LED_MODE_BLINK, 0, a, b, 0, 0, d) : a \in ons, b \in offs, d \in durs }
FadeModes == {LED_MODE_BREATH, LED_MODE_FADE_IN, LED_MODE_FADE_OUT}
FadeCfgs(modes, fades, durs) ==
  { MkCfg(m, 0, 0, 0, f, 0, d) : m \in modes, f \in fades, d \in durs }
AltCfgs(peers, periods, durs) ==
  { MkCfg(LED_MODE_ALTERNATE, p, 0, 0, 0, a, d) : p \in peers, a \in periods, d \in durs }

\* The driver as a whole: every call, on record 1, record 0 and bad arguments;
\* every mode (7 is no mode) with each lifetime
GenCfgs ==
  SteadyCfgs({LED_MODE_OFF, LED_MODE_ON, 7}, DurSet)
    \cup BlinkCfgs({100}, {200}, DurSet)
    \cup FadeCfgs(FadeModes, {300}, DurSet)
    \cup FadeCfgs(FadeModes, {0, 50}, {0})
    \cup AltCfgs({0, 1, 2, LED_INVALID}, {200}, {0, 500})

DoInit == \E id \in {0, 1} : CallInit(id, "set_percent")
DoRegister == \E cb \in {"dur_timeout", NULL} : CallRegister(1, cb)
DoWrite == \E cfg \in GenCfgs : CallWrite(1, cfg)
DoPoll == Poll(MaxTicks)

Next == DoInit \/ DoRegister \/ DoWrite \/ DoPoll

Spec == Boot /\ [][Next]_vars

\* The argument checks: every call with identifiers inside and outside the
\* table and with null pointers
ArgIds == {1, LED_NUM, LED_INVALID}
ArgCfgs ==
  SteadyCfgs({LED_MODE_ON, 7}, {0, 100}) \cup BlinkCfgs({100}, {200}, {0})
    \cup AltCfgs({1, 2}, {200}, {0}) \cup {NULL_CFG}
ArgInit == \E id \in ArgIds, cb \in {"set_percent", NULL} : CallInit(id, cb)
ArgWrite == \E id \in ArgIds, cfg \in ArgCfgs : CallWrite(id, cfg)
ArgRead == \E id \in ArgIds, status \in {"status", NULL} : CallRead(id, status)
ArgPoll == Poll(MaxTicks)

NextArgs == ArgInit \/ ArgWrite \/ ArgRead \/ ArgPoll

SpecArgs == Boot /\ [][NextArgs]_vars

\* BLINK on one initialized record
InitLeds(ids) ==
  [i \in LedIds |-> IF i \in ids THEN [ZeroDev EXCEPT !.id = i, !.set_percent_cb = "set_percent"]
                    ELSE ZeroDev]
Started(ids) ==
  /\ g_led_list = InitLeds(ids)
  /\ res = Result("init", 0, LED_ERROR_NONE)
  /\ cbs = NoCbs
  /\ tcbs = NoTcbs
  /\ trace = [i \in LedIds |-> <<>>]
  /\ wcfg = [i \in LedIds |-> NULL_CFG]

BlinkInit == Started({1})
BlinkWrite == \E cfg \in BlinkCfgs({50, 100, 200}, {100, 300, 800}, {0, 500}) : CallWrite(1, cfg)
BlinkPoll == Poll(BlinkTicks)
NextBlink == BlinkWrite \/ BlinkPoll
SpecBlink == BlinkInit /\ [][NextBlink]_vars

\* the fade modes on one initialized record
FadeInit == Started({1})
FadeWrite == \E cfg \in FadeCfgs(FadeModes, {0, 50, 300, 400, 1000}, {0, 500}) : CallWrite(1, cfg)
FadePoll == Poll(FadeTicks)
NextFade == FadeWrite \/ FadePoll
SpecFade == FadeInit /\ [][NextFade]_vars

\* ALTERNATE on the initialized records 2 and 3, each the other's peer
AltInit == Started({2, 3})
AltWrite ==
  \E id \in {2, 3} : \E cfg \in AltCfgs({5 - id}, {50, 200, 300}, {0}) : CallWrite(id, cfg)
AltPoll == Poll(AltTicks)
NextAlt == AltWrite \/ AltPoll
SpecAlt == AltInit /\ [][NextAlt]_vars

\* every mode on the lowest and the highest record of the table, both
\* initialized, ALTERNATE with the other one as peer; lifetimes of none, of one
\* poll period and (ON, OFF, FADE_OUT) of two
FirstTicks == 1
FirstIds == {0, LED_NUM - 1}
FirstCfgs(id) ==
  SteadyCfgs({LED_MODE_OFF, LED_MODE_ON}, {0, 100, 200})
    \cup BlinkCfgs({300}, {100}, {0, 100})
    \cup FadeCfgs(FadeModes, {300}, {0, 100})
    \cup FadeCfgs({LED_MODE_FADE_OUT}, {300}, {200})
    \cup FadeCfgs({LED_MODE_FADE_IN}, {50}, {0})
    \cup AltCfgs({LED_NUM - 1 - id}, {200}, {0, 100})
FirstInit == Started(FirstIds)
FirstWrite == \E id \in FirstIds : \E cfg \in FirstCfgs(id) : CallWrite(id, cfg)
FirstPoll == Poll(FirstTicks)
NextFirst == FirstWrite \/ FirstPoll
SpecFirst == FirstInit /\ [][NextFirst]_vars

\* the pair 2, 3 already alternating (both initialized, written as each other's
\* peer and polled once), then either record rewritten as ON, as OFF, or as
\* ALTERNATE again, without a lifetime or with one of three poll periods
PeerTicks == 6
PairCfg(id) == MkCfg(LED_MODE_ALTERNATE, 5 - id, 0, 0, 0, 200, 0)
PeerInit ==
  \E o \in lite_led_poll_handle(
             lite_led_write(lite_led_write(InitLeds({2, 3}), 2, PairCfg(2)).list,
                            3, PairCfg(3)).list) :
    /\ g_led_list = o.list
    /\ res = Result("poll", 0, 0)
    /\ cbs = o.cbs
    /\ tcbs = NoTcbs
    /\ trace = [i \in LedIds |->
                  IF i \in {2, 3} THEN <<LED_MIN_BRIGHTNESS, o.list[i].stat.percent>> ELSE <<>>]
    /\ wcfg = [i \in LedIds |-> IF i \in {2, 3} THEN PairCfg(i) ELSE NULL_CFG]
PeerWrite ==
  \E id \in {2, 3} :
    \E cfg \in SteadyCfgs({LED_MODE_ON, LED_MODE_OFF}, {0})
                 \cup AltCfgs({5 - id}, {200}, {0, 300}) : CallWrite(id, cfg)
PeerPoll == Poll(PeerTicks)
NextPeer == PeerWrite \/ PeerPoll
SpecPeer == PeerInit /\ [][NextPeer]_vars

\* one initialized record written once and polled for ever after, every
\* LED_POLL_PERIOD_MS: the modes that run on the tick counters alone, with
\* lifetimes of none, half a poll period, one, three and five poll periods
LiveTicks == 4
LiveDurs == {0, 50, 100, 300, 500}
LiveCfgs ==
  SteadyCfgs({LED_MODE_OFF, LED_MODE_ON}, LiveDurs)
    \cup BlinkCfgs({100, 200}, {100, 300}, LiveDurs)
    \cup AltCfgs({0, 2}, {200}, LiveDurs)
LiveInit == Started({1})
LiveWrite == wcfg[1] = NULL_CFG /\ \E cfg \in LiveCfgs : CallWrite(1, cfg)
LivePoll == PollOn(LiveTicks)
NextLive == LiveWrite \/ LivePoll
SpecLive == LiveInit /\ [][NextLive]_vars /\ WF_vars(LivePoll)

(***************************************************************************)
(* What the claims speak of.                                               *)
(***************************************************************************)
\* record i was given a brightness callback by lite_led_init
Inited(i) == g_led_list[i].set_percent_cb # NULL
\* record i was written since it was initialized
Configured(i) == Inited(i) /\ wcfg[i] # NULL_CFG
\* the polls since that write
Ticks(i) == Len(trace[i]) - 1
\* the brightness after the k-th poll since that write
At(i, k) == trace[i][k + 1]
\* the written durations in poll periods
TicksOf(ms) == ms \div LED_POLL_PERIOD_MS

(***************************************************************************)
(* C1.  A lite_led_write on a valid identifier that returns                *)
(* LED_ERROR_MODE_INVALID or LED_ERROR_ALTERNATE_ID leaves the record       *)
(* (configuration and status) as it was before the call, so every          *)
(* record's mode stays one of the seven modes.                             *)
(***************************************************************************)
C1_RejectedWriteLeavesRecord ==
  [][ (res'.op = "write"
        /\ res'.ret \in {LED_ERROR_MODE_INVALID, LED_ERROR_ALTERNATE_ID})
      => /\ g_led_list'[res'.id] = g_led_list[res'.id]
         /\ \A i \in LedIds : g_led_list'[i].cfg.mode \in LED_MODE_OFF..LED_MODE_ALTERNATE ]_vars

(***************************************************************************)
(* C2.  lite_led_init, lite_led_write and lite_led_read with an identifier *)
(* id >= LED_NUM return the invalid-argument error (-1) and change no      *)
(* record of g_led_list (nor the status handed to lite_led_read).          *)
(***************************************************************************)
C2_BadIdRejected ==
  [][ (res'.op \in {"init", "write", "read"} /\ res'.id >= LED_NUM)
      => /\ res'.ret = LED_ERROR_PARA_INVALID
         /\ g_led_list' = g_led_list
         /\ res'.status = ZeroStat ]_vars

\* a bad identifier was rejected while a record holds a running effect
C2_Witness ==
  /\ res.op \in {"init", "write", "read"}
  /\ res.id >= LED_NUM
  /\ res.ret = LED_ERROR_PARA_INVALID
  /\ Configured(1)
  /\ g_led_list[1].stat.percent = LED_MAX_BRIGHTNESS

(***************************************************************************)
(* C3.  In every reachable state every record's brightness percent is in   *)
(* 0..100, and so is every value passed to a brightness callback.          *)
(***************************************************************************)
C3_PercentInRange ==
  \A i \in LedIds :
    /\ g_led_list[i].stat.percent \in LED_MIN_BRIGHTNESS..LED_MAX_BRIGHTNESS
    /\ cbs[i] # NoCall => cbs[i] \in LED_MIN_BRIGHTNESS..LED_MAX_BRIGHTNESS

\* a fade dispatch handed a value strictly inside the range to the callback
C3_Witness ==
  \E i \in LedIds :
    /\ cbs[i] # NoCall
    /\ cbs[i] > LED_MIN_BRIGHTNESS
    /\ cbs[i] < LED_MAX_BRIGHTNESS
    /\ g_led_list[i].stat.percent = cbs[i]

(***************************************************************************)
(* C4.  An initialized record written with a lifetime of D >= 1 poll       *)
(* periods and not rewritten: as claimed, right after the D-th poll its    *)
(* mode is OFF and its brightness is 0.                                    *)
(***************************************************************************)
C4_OffAndDarkAtExpiry ==
  \A i \in LedIds :
    (Configured(i) /\ TicksOf(wcfg[i].duration_ms) >= 1
       /\ Ticks(i) = TicksOf(wcfg[i].duration_ms))
    => /\ g_led_list[i].cfg.mode = LED_MODE_OFF
       /\ g_led_list[i].stat.percent = LED_MIN_BRIGHTNESS

\* C4 as amended: right after the D-th poll the mode is OFF and the brightness
\* is still the one of the poll before; after the (D+1)-th poll the mode is
\* OFF and the brightness is 0.
C4_OffAtExpiryDarkOnePollLater ==
  \A i \in LedIds :
    (Configured(i) /\ TicksOf(wcfg[i].duration_ms) >= 1)
    => LET D == TicksOf(wcfg[i].duration_ms) IN
       /\ Ticks(i) = D => /\ g_led_list[i].cfg.mode = LED_MODE_OFF
                          /\ g_led_list[i].stat.percent = At(i, D - 1)
       /\ Ticks(i) = D + 1 => /\ g_led_list[i].cfg.mode = LED_MODE_OFF
                              /\ g_led_list[i].stat.percent = LED_MIN_BRIGHTNESS
                              /\ res.op = "poll" => cbs[i] = LED_MIN_BRIGHTNESS

\* a record lit until its fifth and last poll went dark at the sixth
C4_Witness ==
  \E i \in LedIds :
    /\ Configured(i)
    /\ TicksOf(wcfg[i].duration_ms) = 5
    /\ Ticks(i) = 6
    /\ At(i, 5) = LED_MAX_BRIGHTNESS
    /\ g_led_list[i].stat.percent = LED_MIN_BRIGHTNESS

(***************************************************************************)
(* C5.  A registered expiry callback is invoked on exactly the poll on     *)
(* which the record's lifetime countdown reaches zero: not for a lifetime  *)
(* of 0, not by a write, not on later polls.                               *)
(***************************************************************************)
C5_ExpiryCallbackAtExpiry ==
  \A i \in LedIds :
    tcbs[i] <=> /\ res.op = "poll"
                /\ Configured(i)
                /\ g_led_list[i].dur_timeout_cb # NULL
                /\ TicksOf(wcfg[i].duration_ms) >= 1
                /\ Ticks(i) = TicksOf(wcfg[i].duration_ms)

(***************************************************************************)
(* C6.  An initialized record written as BLINK with on and off times of    *)
(* a >= 1 and b >= 1 polls and no lifetime: counting polls from the write, *)
(* the mode dispatch and the brightness callback happen exactly at polls   *)
(* 1, 1+a, 1+a+b, 1+2a+b, ..., alternately with 100 and 0; every other     *)
(* poll is idle.                                                           *)
(***************************************************************************)
C6_BlinkSchedule ==
  \A i \in LedIds :
    (Configured(i) /\ wcfg[i].mode = LED_MODE_BLINK
       /\ TicksOf(wcfg[i].on_ms) >= 1 /\ TicksOf(wcfg[i].off_ms) >= 1
       /\ TicksOf(wcfg[i].duration_ms) = 0 /\ Ticks(i) >= 1 /\ res.op = "poll")
    => LET a == TicksOf(wcfg[i].on_ms)
           b == TicksOf(wcfg[i].off_ms)
           r == (Ticks(i) - 1) % (a + b)
       IN /\ cbs[i] = IF r = 0 THEN LED_MAX_BRIGHTNESS
                      ELSE IF r = a THEN LED_MIN_BRIGHTNESS ELSE NoCall
          /\ g_led_list[i].stat.percent =
               IF r < a THEN LED_MAX_BRIGHTNESS ELSE LED_MIN_BRIGHTNESS

\* on 200 ms, off 800 ms: the 11th poll lights the record again
C6_Witness ==
  /\ Configured(1)
  /\ wcfg[1].mode = LED_MODE_BLINK
  /\ wcfg[1].on_ms = 200 /\ wcfg[1].off_ms = 800 /\ wcfg[1].duration_ms = 0
  /\ Ticks(1) = 11
  /\ cbs[1] = LED_MAX_BRIGHTNESS

(***************************************************************************)
(* C7.  Two initialized records A < B, each in ALTERNATE mode with the     *)
(* other as its peer and the same alternate period, are never both in      *)
(* state ON (both at brightness 100), however the writes and the polls     *)
(* interleave.                                                             *)
(***************************************************************************)
C7_NeverBothOn ==
  \A a, b \in LedIds :
    (a < b /\ Configured(a) /\ Configured(b)
       /\ g_led_list[a].cfg.mode = LED_MODE_ALTERNATE
       /\ g_led_list[b].cfg.mode = LED_MODE_ALTERNATE
       /\ g_led_list[a].cfg.alter_id = b /\ g_led_list[b].cfg.alter_id = a
       /\ g_led_list[a].cfg.alternate_tick = g_led_list[b].cfg.alternate_tick)
    => ~(g_led_list[a].stat.state = LED_STATE_ON /\ g_led_list[b].stat.state = LED_STATE_ON)

\* the brightness does not fall over the polls from..to since the write
NonDecreasing(i, from, to) ==
  \A j, k \in from..to : j <= k => At(i, j) <= At(i, k)
\* the brightness does not rise over the polls from..to since the write
NonIncreasing(i, from, to) ==
  \A j, k \in from..to : j <= k => At(i, j) >= At(i, k)
\* once the brightness was 100 it stayed 100 over the polls 0..to, and the
\* last poll, if it called the callback after that, passed 100
HoldsFull(i, to) ==
  /\ \A j, k \in 0..to : (j <= k /\ At(i, j) = LED_MAX_BRIGHTNESS) => At(i, k) = LED_MAX_BRIGHTNESS
  /\ (res.op = "poll" /\ cbs[i] # NoCall /\ \E j \in 0..(to - 1) : At(i, j) = LED_MAX_BRIGHTNESS)
       => cbs[i] = LED_MAX_BRIGHTNESS

(***************************************************************************)
(* C8.  An initialized record written as FADE_IN, with any fade duration:  *)
(* as claimed, its brightness over the successive polls never falls, and   *)
(* once it is 100 it is 100 after every later poll, no later callback      *)
(* carrying another value.                                                 *)
(***************************************************************************)
C8_FadeInMonotone ==
  \A i \in LedIds :
    (Configured(i) /\ wcfg[i].mode = LED_MODE_FADE_IN)
    => NonDecreasing(i, 0, Ticks(i)) /\ HoldsFull(i, Ticks(i))

\* C8 as amended: the same over the polls up to the one that ends the
\* lifetime, which is over every poll when the lifetime is 0 poll periods.
C8_FadeInMonotoneWhileAlive ==
  \A i \in LedIds :
    (Configured(i) /\ wcfg[i].mode = LED_MODE_FADE_IN
       /\ (TicksOf(wcfg[i].duration_ms) = 0 \/ Ticks(i) <= TicksOf(wcfg[i].duration_ms)))
    => NonDecreasing(i, 0, Ticks(i)) /\ HoldsFull(i, Ticks(i))

\* a fade-in has risen through an intermediate value to 100 and was polled on
C8_Witness ==
  \E i \in LedIds :
    /\ Configured(i) /\ wcfg[i].mode = LED_MODE_FADE_IN
    /\ Ticks(i) >= 5
    /\ At(i, 1) > LED_MIN_BRIGHTNESS /\ At(i, 1) < LED_MAX_BRIGHTNESS
    /\ At(i, 3) = LED_MAX_BRIGHTNESS
    /\ g_led_list[i].stat.percent = LED_MAX_BRIGHTNESS
    /\ g_led_list[i].stat.next_tick = LED_BLOCK_FOREVER

(***************************************************************************)
(* C9.  An initialized record written as BREATH with a fade duration of    *)
(* F >= 1 polls and no lifetime: the brightness sequence is periodic with  *)
(* period 2*F, the brightness after poll k + 2*F equals the one after poll *)
(* k for every k >= 0 (poll 0: right after the write).                     *)
(***************************************************************************)
C9_BreathPeriodic ==
  \A i \in LedIds :
    (Configured(i) /\ wcfg[i].mode = LED_MODE_BREATH
       /\ TicksOf(wcfg[i].fade_ms) >= 1 /\ TicksOf(wcfg[i].duration_ms) = 0)
    => LET F == TicksOf(wcfg[i].fade_ms) IN
       \A k \in 0..(Ticks(i) - 2 * F) : At(i, k + 2 * F) = At(i, k)

(***************************************************************************)
(* C10.  An initialized record written as BREATH with fade_ms = 1000 (10   *)
(* polls; the stated cycle is 20 polls) and no lifetime: as claimed, its   *)
(* brightness is 0 at poll 0, does not fall and reaches 100 by the         *)
(* quarter-cycle poll 5, and is back below 100 by the half-cycle poll 10.  *)
(***************************************************************************)
Breath1000(i) ==
  /\ Configured(i) /\ wcfg[i].mode = LED_MODE_BREATH
  /\ wcfg[i].fade_ms = 1000 /\ TicksOf(wcfg[i].duration_ms) = 0

C10_BreathQuarterHalf ==
  \A i \in LedIds :
    Breath1000(i)
    => /\ At(i, 0) = LED_MIN_BRIGHTNESS
       /\ Ticks(i) >= 5 => NonDecreasing(i, 0, 5) /\ At(i, 5) = LED_MAX_BRIGHTNESS
       /\ Ticks(i) >= 10 => At(i, 10) < LED_MAX_BRIGHTNESS

\* C10 as amended: the brightness is 0 at poll 0, does not fall and reaches 100
\* by the half-cycle poll 10, and does not rise and is back at 0 by the
\* full-cycle poll 20.
C10_BreathHalfFull ==
  \A i \in LedIds :
    Breath1000(i)
    => /\ At(i, 0) = LED_MIN_BRIGHTNESS
       /\ Ticks(i) >= 10 => NonDecreasing(i, 0, 10) /\ At(i, 10) = LED_MAX_BRIGHTNESS
       /\ Ticks(i) >= 20 => NonIncreasing(i, 10, 20) /\ At(i, 20) = LED_MIN_BRIGHTNESS

\* the breath has gone through its full cycle
C10_Witness ==
  \E i \in LedIds :
    /\ Breath1000(i)
    /\ Ticks(i) = 20
    /\ At(i, 5) > LED_MIN_BRIGHTNESS /\ At(i, 5) < LED_MAX_BRIGHTNESS
    /\ At(i, 10) = LED_MAX_BRIGHTNESS
    /\ g_led_list[i].stat.percent = LED_MIN_BRIGHTNESS

\* the curve value one phase step away from the start of a fade
FirstFadePercents(cfg) ==
  LET step == PhaseStep(cfg.fade_ms)
      up == FAdd(FZero, step)
      down == FAdd(LED_PI_F, FNeg(step))
      phase == IF cfg.mode = LED_MODE_FADE_IN THEN (IF GeLedPi(up) THEN LED_PI_F ELSE up)
               ELSE IF cfg.mode = LED_MODE_BREATH THEN (IF GeLed2Pi(up) THEN SubLed2Pi(up) ELSE up)
               ELSE (IF FLeZero(down) THEN FZero ELSE down)
  IN lite_led_get_percent_from_phase(phase)

\* the state of record i right after the first poll since its write is the
\* one its mode's first dispatch leaves
FirstTickRule(i) ==
  LET cfg == wcfg[i]
      st == g_led_list[i].stat
  IN /\ cfg.mode = LED_MODE_ON => At(i, 1) = LED_MAX_BRIGHTNESS
     /\ cfg.mode = LED_MODE_OFF => At(i, 1) = LED_MIN_BRIGHTNESS
     /\ cfg.mode = LED_MODE_BLINK =>
          /\ At(i, 1) = LED_MAX_BRIGHTNESS
          /\ (res.op = "poll" /\ Ticks(i) = 1) =>
               st.state = LED_STATE_ON /\ st.next_tick = TicksOf(cfg.on_ms)
     /\ cfg.mode \in FadeModes => At(i, 1) \in FirstFadePercents(cfg)
     /\ (cfg.mode = LED_MODE_ALTERNATE /\ i < cfg.alter_id /\ cfg.alter_id < LED_NUM) =>
          At(i, 1) = LED_MAX_BRIGHTNESS
     /\ (res.op = "poll" /\ Ticks(i) = 1) => cbs[i] = At(i, 1)

(***************************************************************************)
(* C11.  For every initialized record and each of the seven modes, as      *)
(* claimed: a successful write followed by one poll runs the mode's        *)
(* dispatch and leaves the brightness at the mode's first-tick value (ON   *)
(* 100, OFF 0, BLINK 100 with state ON and the on phase scheduled, the     *)
(* fades the curve value one step from their start, ALTERNATE 100 for the  *)
(* lower id of the pair).                                                  *)
(***************************************************************************)
C11_FirstTick ==
  \A i \in LedIds : (Configured(i) /\ Ticks(i) >= 1) => FirstTickRule(i)

\* C11 as amended: the same for every written lifetime but that of exactly one
\* poll period, which ends at the first poll before any dispatch has run.
C11_FirstTickUnlessExpired ==
  \A i \in LedIds :
    (Configured(i) /\ Ticks(i) >= 1 /\ TicksOf(wcfg[i].duration_ms) # 1) => FirstTickRule(i)

\* the highest record went through the first poll of a FADE_OUT with a
\* lifetime, the callback given the value one step below the top
C11_Witness ==
  /\ res.op = "poll"
  /\ Configured(LED_NUM - 1) /\ Ticks(LED_NUM - 1) = 1
  /\ wcfg[LED_NUM - 1].mode = LED_MODE_FADE_OUT
  /\ TicksOf(wcfg[LED_NUM - 1].duration_ms) = 2
  /\ cbs[LED_NUM - 1] > LED_MIN_BRIGHTNESS /\ cbs[LED_NUM - 1] < LED_MAX_BRIGHTNESS
  /\ cbs[LED_NUM - 1] \in FirstFadePercents(wcfg[LED_NUM - 1])

(***************************************************************************)
(* C12.  A record with no brightness callback is inert: a poll leaves its  *)
(* configuration and status as they were and calls no callback for it,     *)
(* also when lite_led_write has written an effect, with or without a       *)
(* lifetime, to it.                                                        *)
(***************************************************************************)
C12_NoCallbackInert ==
  [][ res'.op = "poll"
      => \A i \in LedIds :
           g_led_list[i].set_percent_cb = NULL
           => g_led_list'[i] = g_led_list[i] /\ cbs'[i] = NoCall ]_vars

\* a record never initialized was written an effect with a lifetime and
\* polled twice: nothing of it has moved
C12_Witness ==
  /\ res.op = "poll"
  /\ ~Inited(1) /\ wcfg[1] # NULL_CFG
  /\ wcfg[1].mode = LED_MODE_BLINK
  /\ Ticks(1) >= 2
  /\ g_led_list[1].cfg.mode = LED_MODE_BLINK
  /\ g_led_list[1].stat.remain_tick = TicksOf(wcfg[1].duration_ms)
  /\ g_led_list[1].stat.remain_tick > 1
  /\ g_led_list[1].stat.next_tick = 0
  /\ cbs[1] = NoCall

\* the last write to record i was accepted
WriteOk(i) ==
  /\ wcfg[i].mode \in LED_MODE_OFF..LED_MODE_ALTERNATE
  /\ ~(wcfg[i].mode = LED_MODE_ALTERNATE /\ wcfg[i].alter_id = i)

\* the tables k polls after those of L
RECURSIVE FreshRun(_, _)
FreshRun(L, k) ==
  IF k = 0 THEN L
  ELSE FreshRun(UNION { { o.list : o \in lite_led_poll_handle(l) } : l \in L }, k - 1)

\* the tables a freshly initialized record i can be in k polls after cfg was
\* written to it
FreshAfter(i, cfg, k) == FreshRun({lite_led_write(InitLeds({i}), i, cfg).list}, k)

(***************************************************************************)
(* C13.  An accepted lite_led_write cancels the running effect: right      *)
(* after it the status is state OFF, next_tick 0, remain_tick =            *)
(* duration_ms / poll period, phase and percent at the mode's initial      *)
(* values, and after every number of polls since, the configuration and    *)
(* the status are those of a freshly initialized record given the same     *)
(* write and as many polls, whatever the record held before.               *)
(***************************************************************************)
C13_WriteResets ==
  \A i \in LedIds :
    (Configured(i) /\ WriteOk(i))
    => /\ \E l \in FreshAfter(i, wcfg[i], Ticks(i)) :
            l[i].cfg = g_led_list[i].cfg /\ l[i].stat = g_led_list[i].stat
       /\ Ticks(i) = 0 =>
            LET st == g_led_list[i].stat
                out == wcfg[i].mode = LED_MODE_FADE_OUT
            IN /\ st.state = LED_STATE_OFF
               /\ st.next_tick = 0
               /\ st.remain_tick = TicksOf(wcfg[i].duration_ms)
               /\ st.phase = IF out THEN LED_PI_F ELSE FZero
               /\ st.percent = IF out THEN LED_MAX_BRIGHTNESS ELSE LED_MIN_BRIGHTNESS

\* a write was accepted by a record in the on phase of a BLINK with a running
\* lifetime, and left it reset
C13_Witness ==
  /\ res.op = "write" /\ res.ret = LED_ERROR_NONE
  /\ Inited(res.id)
  /\ res.before
  /\ wcfg[res.id].mode = LED_MODE_FADE_IN
  /\ g_led_list[res.id].stat.state = LED_STATE_OFF
  /\ g_led_list[res.id].stat.next_tick = 0
  /\ g_led_list[res.id].stat.remain_tick = 0

(***************************************************************************)
(* C14.  The dur_timeout flag of a record's status is false after every    *)
(* accepted write, true from the poll at which the lifetime countdown      *)
(* reaches zero until the next write or lite_led_init, and never true for  *)
(* an effect with no lifetime.                                             *)
(***************************************************************************)
C14_ExpiredFlag ==
  \A i \in LedIds :
    (Configured(i) /\ WriteOk(i))
    => (g_led_list[i].stat.dur_timeout
          <=> (TicksOf(wcfg[i].duration_ms) >= 1 /\ Ticks(i) >= TicksOf(wcfg[i].duration_ms)))

\* record i is initialized, its lifetime does not end at the next poll and its
\* next-event countdown is the sentinel or stays non-zero when decremented
IdleNext(i) ==
  /\ Inited(i)
  /\ g_led_list[i].stat.remain_tick # 1
  /\ \/ g_led_list[i].stat.next_tick = LED_BLOCK_FOREVER
     \/ g_led_list[i].stat.next_tick >= 2

(***************************************************************************)
(* C15.  A poll of an initialized record whose lifetime does not end at    *)
(* that poll and whose next-event countdown is the sentinel, or is still   *)
(* non-zero after the decrement, calls no callback for it and leaves its   *)
(* mode, state, percent and phase alone: only a running lifetime countdown *)
(* and a next-event countdown other than the sentinel go down by one.      *)
(***************************************************************************)
C15_IdlePoll ==
  [][ res'.op = "poll"
      => \A i \in LedIds :
           IdleNext(i)
           => /\ cbs'[i] = NoCall
              /\ g_led_list'[i] =
                   [g_led_list[i] EXCEPT
                      !.stat.remain_tick = IF @ = 0 THEN 0 ELSE @ - 1,
                      !.stat.next_tick = IF @ = LED_BLOCK_FOREVER THEN @ ELSE @ - 1] ]_vars

\* the poll in the middle of the off phase of a BLINK with a running lifetime
C15_Witness ==
  /\ res.op = "poll"
  /\ Configured(1) /\ wcfg[1].mode = LED_MODE_BLINK
  /\ Ticks(1) >= 3
  /\ cbs[1] = NoCall
  /\ g_led_list[1].cfg.mode = LED_MODE_BLINK
  /\ g_led_list[1].stat.state = LED_STATE_OFF
  /\ g_led_list[1].stat.next_tick = 1
  /\ g_led_list[1].stat.remain_tick > 0

\* record i runs an accepted effect with a lifetime of at least one poll period
Mortal(i) == Configured(i) /\ WriteOk(i) /\ TicksOf(wcfg[i].duration_ms) >= 1

(***************************************************************************)
(* C16.  The poll at which a record's lifetime countdown reaches zero      *)
(* forces the mode to OFF and the next-event countdown to 0, runs no       *)
(* dispatch and calls no callback: percent, state and phase keep their     *)
(* values.  The poll right after it runs the OFF dispatch: state OFF,      *)
(* percent 0, next-event = the sentinel, the callback called with 0.       *)
(* Every later poll leaves the record alone and calls nothing for it.      *)
(***************************************************************************)
C16_ExpiryThenOff ==
  [][ res'.op = "poll"
      => \A i \in LedIds :
           Mortal(i)
           => LET D == TicksOf(wcfg[i].duration_ms)
                  old == g_led_list[i]
                  new == g_led_list'[i]
              IN /\ Ticks(i) = D - 1 =>
                      /\ new = [old EXCEPT !.cfg.mode = LED_MODE_OFF,
                                           !.stat.next_tick = 0,
                                           !.stat.remain_tick = 0]
                      /\ cbs'[i] = NoCall
                 /\ Ticks(i) = D =>
                      /\ new = [old EXCEPT !.stat.state = LED_STATE_OFF,
                                           !.stat.percent = LED_MIN_BRIGHTNESS,
                                           !.stat.next_tick = LED_BLOCK_FOREVER]
                      /\ cbs'[i] = LED_MIN_BRIGHTNESS
                 /\ Ticks(i) > D => new = old /\ cbs'[i] = NoCall ]_vars

\* an ON with a lifetime of five poll periods: lit when the lifetime ended,
\* dark one poll later, polled once more
C16_Witness ==
  /\ res.op = "poll"
  /\ Mortal(1) /\ wcfg[1].mode = LED_MODE_ON
  /\ TicksOf(wcfg[1].duration_ms) = 5
  /\ Ticks(1) = 7
  /\ At(1, 5) = LED_MAX_BRIGHTNESS
  /\ At(1, 6) = LED_MIN_BRIGHTNESS
  /\ g_led_list[1].cfg.mode = LED_MODE_OFF
  /\ g_led_list[1].stat.next_tick = LED_BLOCK_FOREVER
  /\ cbs[1] = NoCall

\* the phase step the written fade duration calls for: the half cycle over the
\* fade's polls, the hundredth of the half cycle when these are none
StatedStep(cfg) ==
  LET F == TicksOf(cfg.fade_ms)
      mag == FDiv(LED_PI_F, IntToFloat(IF F = 0 THEN LED_MAX_BRIGHTNESS ELSE F))
  IN IF cfg.mode = LED_MODE_FADE_OUT THEN FNeg(mag) ELSE mag

(***************************************************************************)
(* C17.  For BREATH, FADE_IN and FADE_OUT: when the written fade duration  *)
(* is below one poll period (0 included), lite_led_write stores the        *)
(* minimal phase step, the half cycle / 100 (negated for FADE_OUT), and    *)
(* divides by no zero; for a fade duration of F >= 1 polls the step's      *)
(* magnitude is the half cycle / F.                                        *)
(***************************************************************************)
C17_PhaseStep ==
  \A i \in LedIds :
    (Configured(i) /\ wcfg[i].mode \in FadeModes)
    => /\ ~g_led_list[i].stat.phase_step.inf
       /\ g_led_list[i].stat.phase_step = StatedStep(wcfg[i])

\* record i, in ALTERNATE mode with a peer inside the table, dispatches at the
\* next poll
AlternateNext(i) ==
  /\ Inited(i)
  /\ g_led_list[i].cfg.mode = LED_MODE_ALTERNATE
  /\ g_led_list[i].cfg.alter_id < LED_NUM
  /\ g_led_list[i].stat.remain_tick # 1
  /\ g_led_list[i].stat.next_tick \in {0, 1}

(***************************************************************************)
(* C18.  A dispatch of an ALTERNATE record with a peer inside the table    *)
(* sets its next-event countdown to alternate_tick and, with the lower id, *)
(* toggles its own state, with the higher id, takes the negation of the    *)
(* state the peer has after the same poll (the peer comes first in the     *)
(* pass); its percent is 100 when ON and 0 when OFF and is handed to its   *)
(* callback.  The dispatch writes nothing to the peer: a peer that is idle *)
(* at that poll only counts down.                                          *)
(***************************************************************************)
C18_AlternateDispatch ==
  [][ res'.op = "poll"
      => \A i \in LedIds :
           AlternateNext(i)
           => LET p == g_led_list[i].cfg.alter_id
                  st == IF i < p THEN 1 - g_led_list[i].stat.state
                        ELSE 1 - g_led_list'[p].stat.state
              IN /\ g_led_list'[i] =
                      [g_led_list[i] EXCEPT
                         !.stat.next_tick = g_led_list[i].cfg.alternate_tick,
                         !.stat.state = st,
                         !.stat.percent = IF st = LED_STATE_ON THEN LED_MAX_BRIGHTNESS
                                          ELSE LED_MIN_BRIGHTNESS,
                         !.stat.remain_tick = IF @ = 0 THEN 0 ELSE @ - 1]
                 /\ cbs'[i] = g_led_list'[i].stat.percent
                 /\ (~Inited(p) \/ IdleNext(p)) =>
                      g_led_list'[p] =
                        [g_led_list[p] EXCEPT
                           !.stat.remain_tick = IF @ = 0 \/ ~Inited(p) THEN @ ELSE @ - 1,
                           !.stat.next_tick =
                             IF @ = LED_BLOCK_FOREVER \/ ~Inited(p) THEN @ ELSE @ - 1] ]_vars

\* the pair written one after the other and polled three times: at the third
\* poll both dispatched, the lower id went OFF and the higher one ON
C18_Witness ==
  /\ res.op = "poll"
  /\ Configured(2) /\ Configured(3)
  /\ wcfg[2].mode = LED_MODE_ALTERNATE /\ wcfg[3].mode = LED_MODE_ALTERNATE
  /\ Ticks(2) = 3 /\ Ticks(3) = 3
  /\ g_led_list[2].cfg.alternate_tick = 2 /\ g_led_list[3].cfg.alternate_tick = 2
  /\ cbs[2] = LED_MIN_BRIGHTNESS /\ cbs[3] = LED_MAX_BRIGHTNESS
  /\ g_led_list[2].stat.state = LED_STATE_OFF /\ g_led_list[3].stat.state = LED_STATE_ON
  /\ g_led_list[2].stat.next_tick = 2 /\ g_led_list[3].stat.next_tick = 2

(***************************************************************************)
(* C19.  A dispatch of an ALTERNATE record whose peer, inside the table,   *)
(* is no longer in ALTERNATE mode (rewritten to another mode, or expired   *)
(* to OFF) is a no-op: it leaves the record's state and percent as they    *)
(* were.                                                                   *)
(***************************************************************************)
C19_PeerGoneNoOp ==
  [][ res'.op = "poll"
      => \A i \in LedIds :
           (AlternateNext(i)
              /\ g_led_list[g_led_list[i].cfg.alter_id].cfg.mode # LED_MODE_ALTERNATE)
           => /\ g_led_list'[i].stat.state = g_led_list[i].stat.state
              /\ g_led_list'[i].stat.percent = g_led_list[i].stat.percent ]_vars

\* record i is off for good: mode OFF, dark, blocked
OffForGood(i) ==
  /\ g_led_list[i].cfg.mode = LED_MODE_OFF
  /\ g_led_list[i].stat.percent = LED_MIN_BRIGHTNESS
  /\ g_led_list[i].stat.next_tick = LED_BLOCK_FOREVER

(***************************************************************************)
(* C20.  Every accepted write with duration_ms > 0 (values below one poll  *)
(* period included) to an initialized record that is not rewritten leads,  *)
(* after finitely many polls, to the record in mode OFF, with percent 0,   *)
(* blocked for ever; with duration_ms = 0 the written mode is never taken  *)
(* away.                                                                   *)
(***************************************************************************)
C20_EventuallyOff ==
  /\ \A i \in LedIds :
       (Configured(i) /\ WriteOk(i) /\ wcfg[i].duration_ms > 0) ~> OffForGood(i)
  /\ [](\A i \in LedIds :
          (Configured(i) /\ WriteOk(i) /\ wcfg[i].duration_ms = 0)
          => g_led_list[i].cfg.mode = wcfg[i].mode)

====
